---- MODULE Spec2Model ----
(***************************************************************************)
(* maprando: the three read_gpx routines (gpx_utils.py,                    *)
(* maprando/gpx_utils.py, maprando/utils.py) and the maprando() script,    *)
(* run one after the other on the same GPX file.                           *)
(*                                                                         *)
(* Numbers are integers (degrees, metres, seconds).  A value read from the *)
(* XML is a str record; float() and strptime() turn it into a float or a   *)
(* datetime record, or raise.                                              *)
(***************************************************************************)
EXTENDS Integers, Sequences, FiniteSets, TLC

VARIABLES
    input_file,     \* the GPX file read by every call
    call,           \* the routine being run
    pc,             \* position inside the routine
    activity_date,  \* locals of read_gpx
    activity_name,
    points,
    k,              \* number of items the for loop has processed
    xmin, xmax, ymin, ymax,
    ret,            \* value returned by each finished call
    exc,            \* exception each finished call ended with
    args,           \* (output_file, background_file, logos_file) of maprando()
    figure,         \* the matplotlib figure of maprando()
    written         \* files written so far

vars == <<input_file, call, pc, activity_date, activity_name, points, k,
          xmin, xmax, ymin, ymax, ret, exc, args, figure, written>>

locals == <<activity_date, activity_name, points, k, xmin, xmax, ymin, ymax>>

----------------------------------------------------------------------------
(* Bounds of the model *)

MaxPoints == 3

(* Program constants *)

XminInit == 180
XmaxInit == -180
YminInit == 90
YmaxInit == -90
SecondsPerDay == 86400
OsmZoom == 15

----------------------------------------------------------------------------
(* Values *)

None == [type |-> "NoneType"]
Missing == [type |-> "missing"]
NoResult == [type |-> "no result"]

\* text of a decimal number, and text that is no number
NumText(n) == [type |-> "str", numeric |-> TRUE, val |-> n]
JunkText == [type |-> "str", numeric |-> FALSE, val |-> 0]

\* text "%Y-%m-%dT%H:%M:%SZ" of day d, second s of the day; and any other text
TimeText(d, s) == [type |-> "str", wellformed |-> TRUE, day |-> d, sec |-> s]
JunkTime == [type |-> "str", wellformed |-> FALSE, day |-> 0, sec |-> 0]

NameText == [type |-> "str", text |-> "Morning Ride"]

Float(n) == [type |-> "float", val |-> n]

\* float(s): whether it succeeds, and its value
CanFloatAny(s) == TRUE
CanFloat(s) == s.type = "str" /\ s.numeric
ToFloat(s) == Float(s.val)

\* datetime.datetime.strptime(s, "%Y-%m-%dT%H:%M:%SZ")
CanStrptime(s) == s.type = "str" /\ s.wellformed
Strptime(s) == [type |-> "datetime", day |-> s.day, sec |-> s.sec]

\* datetime - datetime: a timedelta, normalised so that 0 <= seconds < 86400
TotalSeconds(a, b) == (a.day - b.day) * SecondsPerDay + (a.sec - b.sec)
TimeDelta(a, b) ==
    [days |-> TotalSeconds(a, b) \div SecondsPerDay,
     seconds |-> TotalSeconds(a, b) % SecondsPerDay]

\* (a - b).seconds
SecondsTotal(a, b) == TotalSeconds(a, b)
Seconds(a, b) == TimeDelta(a, b).seconds

----------------------------------------------------------------------------
(* The GPX files *)

Point(lon, lat, ele, time) == [lon |-> lon, lat |-> lat, ele |-> ele, time |-> time]

StartTime == TimeText(1, 5)

CoordPoints ==
    { Point(NumText(c[1]), NumText(c[2]), NumText(250), StartTime) :
        c \in {<<-180, -91>>, <<-7, 90>>, <<181, 3>>, <<42, -2>>} }

TimedPoints ==
    { Point(NumText(6), NumText(45), NumText(300), t) :
        t \in {TimeText(1, 0), TimeText(2, 5), TimeText(2, 7)} }

BadPoints ==
    { Point(JunkText, NumText(45), NumText(300), StartTime),
      Point(NumText(6), JunkText, NumText(300), StartTime),
      Point(NumText(6), NumText(45), JunkText, StartTime),
      Point(NumText(6), NumText(45), NumText(300), JunkTime) }

PointTexts == CoordPoints \cup TimedPoints \cup BadPoints

RECURSIVE SeqsUpTo(_, _)
SeqsUpTo(S, n) ==
    IF n = 0 THEN { <<>> }
    ELSE LET shorter == SeqsUpTo(S, n - 1)
         IN shorter \cup { Append(s, x) : s \in { t \in shorter : Len(t) = n - 1 }, x \in S }

\* <metadata><time> and <trk><name>: both present, or one defective
Headers ==
    { <<TimeText(1, 0), NameText>>, <<JunkTime, NameText>>,
      <<Missing, NameText>>, <<TimeText(1, 0), Missing>> }

Files ==
    { [metadata_time |-> h[1], name |-> h[2], trkpt |-> s] :
        h \in Headers, s \in SeqsUpTo(PointTexts, MaxPoints) }

\* xmltodict.parse: one child element becomes a dict, several become a list
Xmltodict(file) ==
    [metadata_time |-> file.metadata_time,
     name |-> file.name,
     trkpt |-> IF Len(file.trkpt) = 0 THEN Missing
               ELSE IF Len(file.trkpt) = 1
                    THEN [type |-> "dict", value |-> file.trkpt]
                    ELSE [type |-> "list", value |-> file.trkpt]]

\* what "for item in points" yields: the keys of a dict, the elements of a list
DictKeys == <<"@lat", "@lon", "ele", "time">>
Items(pts) == IF pts.type = "dict" THEN DictKeys ELSE pts.value

----------------------------------------------------------------------------
(* The routines *)

Calls == <<"gpx_utils", "maprando.gpx_utils", "maprando.utils", "maprando.maprando">>
CallSet == { Calls[i] : i \in 1..Len(Calls) }

NextCall(c) ==
    CASE c = "gpx_utils" -> "maprando.gpx_utils"
      [] c = "maprando.gpx_utils" -> "maprando.utils"
      [] c = "maprando.utils" -> "maprando.maprando"
      [] OTHER -> "exit"

StartPc(c) ==
    CASE c = "maprando.maprando" -> "main"
      [] c = "exit" -> "exit"
      [] OTHER -> "parse"

\* the read_gpx a call runs: maprando.py imports the gpx_utils next to it
Code(c) == IF c = "maprando.maprando" THEN "maprando.gpx_utils" ELSE c

\* only maprando/utils.py converts each point's time
ConvertsTimeAll(code) == TRUE
ConvertsTime(code) == code = "maprando.utils"

\* "if v < cur: cur = v" and "if v > cur: cur = v"
UpdateMinFlipped(v, cur) == IF v > cur THEN v ELSE cur
UpdateMin(v, cur) == IF v < cur THEN v ELSE cur
UpdateMax(v, cur) == IF v > cur THEN v ELSE cur

Unwind ==
    /\ activity_date' = None
    /\ activity_name' = None
    /\ points' = None
    /\ k' = 0
    /\ xmin' = None /\ xmax' = None /\ ymin' = None /\ ymax' = None

Raise(e) ==
    /\ exc' = [exc EXCEPT ![call] = e]
    /\ Unwind
    /\ call' = NextCall(call)
    /\ pc' = StartPc(NextCall(call))
    /\ UNCHANGED <<input_file, ret, args, figure, written>>

Init ==
    /\ input_file \in Files
    /\ call = Calls[1]
    /\ pc = StartPc(Calls[1])
    /\ activity_date = None
    /\ activity_name = None
    /\ points = None
    /\ k = 0
    /\ xmin = None /\ xmax = None /\ ymin = None /\ ymax = None
    /\ ret = [c \in CallSet |-> NoResult]
    /\ exc = [c \in CallSet |-> "none"]
    /\ args = None
    /\ figure = None
    /\ written = {}

\* open, parse, read the activity date and name and the points, set the bounds
ParseFile ==
    /\ pc = "parse"
    /\ LET data == Xmltodict(input_file)
       IN IF data.metadata_time = Missing THEN Raise("KeyError")
          ELSE IF ~CanStrptime(data.metadata_time) THEN Raise("ValueError")
          ELSE IF data.name = Missing THEN Raise("KeyError")
          ELSE IF data.trkpt = Missing THEN Raise("TypeError")
          ELSE /\ activity_date' = Strptime(data.metadata_time)
               /\ activity_name' = data.name
               /\ points' = data.trkpt
               /\ k' = 0
               /\ xmin' = XminInit
               /\ xmax' = XmaxInit
               /\ ymin' = YminInit
               /\ ymax' = YmaxInit
               /\ pc' = "loop"
               /\ UNCHANGED <<input_file, call, ret, exc, args, figure, written>>

\* one iteration of "for item in points"
LoopBody ==
    /\ pc = "loop"
    /\ k < Len(Items(points))
    /\ LET item == Items(points)[k + 1]
       IN IF points.type = "dict" THEN Raise("TypeError")
          ELSE IF ~CanFloat(item.lon) THEN Raise("ValueError")
          ELSE IF ~CanFloat(item.lat) THEN Raise("ValueError")
          ELSE IF ~CanFloat(item.ele) THEN Raise("ValueError")
          ELSE IF ConvertsTime(Code(call)) /\ ~CanStrptime(item.time) THEN Raise("ValueError")
          ELSE LET conv == [lon |-> ToFloat(item.lon),
                            lat |-> ToFloat(item.lat),
                            ele |-> ToFloat(item.ele),
                            time |-> IF ConvertsTime(Code(call))
                                     THEN Strptime(item.time) ELSE item.time]
               IN /\ points' = [points EXCEPT !.value[k + 1] = conv]
                  /\ xmin' = UpdateMin(conv.lon.val, xmin)
                  /\ xmax' = UpdateMax(conv.lon.val, xmax)
                  /\ ymin' = UpdateMin(conv.lat.val, ymin)
                  /\ ymax' = UpdateMax(conv.lat.val, ymax)
                  /\ k' = k + 1
                  /\ UNCHANGED <<input_file, call, pc, activity_date, activity_name,
                                 ret, exc, args, figure, written>>

\* numpy array of the rows: every entry a float64
RowSwapped(code, pts, i) ==
    IF code = "maprando.utils"
    THEN <<pts[i].lon, pts[i].lat, pts[i].ele, Float(Seconds(pts[i].time, pts[1].time))>>
    ELSE <<pts[i].lat, pts[i].lon, pts[i].ele>>
Row(code, pts, i) ==
    IF code = "maprando.utils"
    THEN <<pts[i].lon, pts[i].lat, pts[i].ele, Float(Seconds(pts[i].time, pts[1].time))>>
    ELSE <<pts[i].lon, pts[i].lat, pts[i].ele>>

Columns(code) ==
    IF code = "maprando.utils" THEN <<"lon", "lat", "ele", "time">>
    ELSE <<"lon", "lat", "ele">>

\* index=[point["time"] for point in points]
TableIndexReversed(pts) == [i \in 1..Len(pts) |-> pts[Len(pts) + 1 - i].time]
TableIndex(pts) == [i \in 1..Len(pts) |-> pts[i].time]

\* pd.DataFrame(array, index=..., columns=...)
DataFrame(code, pts) ==
    [type |-> "DataFrame",
     index |-> TableIndex(pts),
     columns |-> Columns(code),
     values |-> [i \in 1..Len(pts) |-> Row(code, pts, i)]]

\* the last element of the returned tuple
ReturnedPoints(code, pts) ==
    IF code = "gpx_utils" THEN pts ELSE DataFrame(code, pts)

\* the loop is over: build the table and return (to maprando(), or to the caller)
Return ==
    /\ pc = "loop"
    /\ k = Len(Items(points))
    /\ IF call = "maprando.maprando"
       THEN /\ points' = ReturnedPoints(Code(call), points.value)
            /\ pc' = "project"
            /\ UNCHANGED <<input_file, call, activity_date, activity_name, k,
                           xmin, xmax, ymin, ymax, ret, exc, args, figure, written>>
       ELSE /\ ret' = [ret EXCEPT ![call] =
                          [activity_date |-> activity_date,
                           activity_name |-> activity_name,
                           xmin |-> xmin, xmax |-> xmax,
                           ymin |-> ymin, ymax |-> ymax,
                           points |-> ReturnedPoints(Code(call), points.value)]]
            /\ Unwind
            /\ call' = NextCall(call)
            /\ pc' = StartPc(NextCall(call))
            /\ UNCHANGED <<input_file, exc, args, figure, written>>

----------------------------------------------------------------------------
(* maprando/maprando.py *)

Path(name) == [type |-> "str", text |-> name]
CommandLines ==
    { [output_file |-> Path("map.pdf"), background_file |-> None, logos_file |-> None],
      [output_file |-> Path("out.pdf"), background_file |-> None, logos_file |-> None],
      [output_file |-> Path("map.pdf"), background_file |-> Path("background.tif"),
       logos_file |-> Path("logos.png")] }

\* __main__: parse the command line and call maprando()
Main ==
    /\ pc = "main"
    /\ \E a \in CommandLines : args' = a
    /\ pc' = "parse"
    /\ UNCHANGED <<input_file, call, locals, ret, exc, figure, written>>

ColumnOf(frame, name) ==
    LET c == CHOOSE j \in 1..Len(frame.columns) : frame.columns[j] = name
    IN [i \in 1..Len(frame.values) |-> frame.values[i][c]]

\* ccrs.epsg(3857).transform_points(ccrs.PlateCarree(), lon, lat)
TransformPoints(lons, lats) ==
    [i \in 1..Len(lons) |->
        <<[type |-> "float", crs |-> "EPSG:3857", axis |-> "x", lon |-> lons[i].val],
          [type |-> "float", crs |-> "EPSG:3857", axis |-> "y", lat |-> lats[i].val]>>]

\* points["x"] = ...; points["y"] = ...
Project ==
    /\ pc = "project"
    /\ LET projected_coords ==
               TransformPoints(ColumnOf(points, "lon"), ColumnOf(points, "lat"))
       IN points' = [points EXCEPT
                       !.columns = @ \o <<"x", "y">>,
                       !.values = [i \in 1..Len(@) |-> @[i] \o projected_coords[i]]]
    /\ pc' = "plot"
    /\ UNCHANGED <<input_file, call, activity_date, activity_name, k,
                   xmin, xmax, ymin, ymax, ret, exc, args, figure, written>>

\* plt.figure, plt.axes, plt.plot
Plot ==
    /\ pc = "plot"
    /\ figure' = [figsize |-> <<8, 6>>, dpi |-> 100, shown |-> FALSE,
                  artists |-> << [kind |-> "line", color |-> "blue",
                                  x |-> ColumnOf(points, "lon"),
                                  y |-> ColumnOf(points, "lat")] >>]
    /\ pc' = "add_image"
    /\ UNCHANGED <<input_file, call, locals, ret, exc, args, written>>

\* geo_axes.add_image(cimgt.OSM(), 15)
AddImage ==
    /\ pc = "add_image"
    /\ figure' = [figure EXCEPT !.artists =
                     Append(@, [kind |-> "image", tiles |-> "OSM", zoom |-> OsmZoom])]
    /\ pc' = "gridlines"
    /\ UNCHANGED <<input_file, call, locals, ret, exc, args, written>>

\* geo_axes.gridlines(draw_labels=True) and its label settings
Gridlines ==
    /\ pc = "gridlines"
    /\ figure' = [figure EXCEPT !.artists =
                     Append(@, [kind |-> "gridlines", top_labels |-> FALSE,
                                right_labels |-> FALSE])]
    /\ pc' = "show"
    /\ UNCHANGED <<input_file, call, locals, ret, exc, args, written>>

\* a variant that also saves the figure to output_file
ShowAndSave ==
    /\ pc = "show"
    /\ figure' = [figure EXCEPT !.shown = TRUE]
    /\ written' = written \cup {args.output_file}
    /\ ret' = [ret EXCEPT ![call] = None]
    /\ Unwind
    /\ call' = NextCall(call)
    /\ pc' = StartPc(NextCall(call))
    /\ UNCHANGED <<input_file, exc, args>>

\* plt.show(), then maprando() returns None
Show ==
    /\ pc = "show"
    /\ figure' = [figure EXCEPT !.shown = TRUE]
    /\ ret' = [ret EXCEPT ![call] = None]
    /\ Unwind
    /\ call' = NextCall(call)
    /\ pc' = StartPc(NextCall(call))
    /\ UNCHANGED <<input_file, exc, args, written>>

Next ==
    \/ ParseFile
    \/ LoopBody
    \/ Return
    \/ Main
    \/ Project
    \/ Plot
    \/ AddImage
    \/ Gridlines
    \/ Show

Spec == Init /\ [][Next]_vars

----------------------------------------------------------------------------
(* Vocabulary of the properties *)

Readers == {"gpx_utils", "maprando.gpx_utils", "maprando.utils"}
TableReaders == {"maprando.gpx_utils", "maprando.utils"}

Returned(c) == ret[c] # NoResult
Finished(c) == ret[c] # NoResult \/ exc[c] # "none"

track == input_file.trkpt
n == Len(input_file.trkpt)

SetMin(S) == CHOOSE m \in S : \A x \in S : m <= x
SetMax(S) == CHOOSE m \in S : \A x \in S : m >= x

GoodHeader ==
    /\ input_file.metadata_time # Missing
    /\ input_file.metadata_time.wellformed
    /\ input_file.name # Missing

NumericPoint(p) == p.lon.numeric /\ p.lat.numeric /\ p.ele.numeric
AllNumeric == \A i \in 1..n : NumericPoint(track[i])
AllTimed == \A i \in 1..n : track[i].time.wellformed

InRange ==
    \A i \in 1..n : /\ track[i].lon.val >= -180 /\ track[i].lon.val <= 180
                    /\ track[i].lat.val >= -90 /\ track[i].lat.val <= 90

Lons(j) == { track[i].lon.val : i \in 1..j }
Lats(j) == { track[i].lat.val : i \in 1..j }

\* the (lon, lat, ele) of row i of what a reader returned
Triple(c, i) ==
    IF c = "gpx_utils"
    THEN <<ret[c].points[i].lon, ret[c].points[i].lat, ret[c].points[i].ele>>
    ELSE SubSeq(ret[c].points.values[i], 1, 3)
RowCount(c) ==
    IF c = "gpx_utils" THEN Len(ret[c].points) ELSE Len(ret[c].points.values)

FileTriple(i) == <<Float(track[i].lon.val), Float(track[i].lat.val), Float(track[i].ele.val)>>

\* the instant a timestamp (text or datetime) denotes, in seconds
Instant(t) == t.day * SecondsPerDay + t.sec
TimeOrdered(stamps) ==
    \A i \in 1..(Len(stamps) - 1) : Instant(stamps[i]) <= Instant(stamps[i + 1])
FileTimes == [i \in 1..n |-> track[i].time]

----------------------------------------------------------------------------
(* C1 *)

\* C1: for every track of n >= 1 points with longitudes in [-180, 180] and
\* latitudes in [-90, 90], read_gpx returns the bounding box: the minimum and
\* maximum longitude and latitude over all points.
C1_BoundingBoxOfEveryTrack ==
    \A c \in Readers :
        (Finished(c) /\ GoodHeader /\ n >= 1 /\ AllNumeric /\ AllTimed /\ InRange)
        => /\ Returned(c)
           /\ ret[c].xmin = SetMin(Lons(n))
           /\ ret[c].xmax = SetMax(Lons(n))
           /\ ret[c].ymin = SetMin(Lats(n))
           /\ ret[c].ymax = SetMax(Lats(n))

(* C2 *)

\* C2: for every track of n >= 1 points (one point included) read_gpx returns
\* a table of exactly n rows; row i holds the longitude, latitude and elevation
\* of the i-th point of the file and is indexed by that point's timestamp.
C2_TableOfEveryTrack ==
    \A c \in TableReaders :
        (Finished(c) /\ GoodHeader /\ n >= 1 /\ AllNumeric /\ AllTimed)
        => /\ Returned(c)
           /\ RowCount(c) = n
           /\ Len(ret[c].points.index) = n
           /\ \A i \in 1..n :
                 /\ Triple(c, i) = FileTriple(i)
                 /\ Instant(ret[c].points.index[i]) = Instant(track[i].time)

(* C3 *)

\* C3 as stated: the table read_gpx returns is time-ordered for every input
\* point sequence: the timestamp of row i is not later than that of row i+1.
C3_TableAlwaysTimeOrdered ==
    \A c \in TableReaders :
        (Returned(c) /\ AllTimed) => TimeOrdered(ret[c].points.index)

\* C3 amended: the table keeps the file order of the points (row i is indexed
\* by the timestamp of the i-th track point, nothing is sorted), so it is
\* time-ordered exactly when the track points of the file are.
C3_TableOrderedAsFile ==
    \A c \in TableReaders :
        (Returned(c) /\ AllTimed)
        => /\ Len(ret[c].points.index) = n
           /\ \A i \in 1..n : Instant(ret[c].points.index[i]) = Instant(track[i].time)
           /\ (TimeOrdered(ret[c].points.index) <=> TimeOrdered(FileTimes))

C3_Witness ==
    /\ Returned("maprando.utils")
    /\ Returned("maprando.gpx_utils")
    /\ n >= 2
    /\ ~TimeOrdered(FileTimes)
    /\ ~TimeOrdered(ret["maprando.utils"].points.index)

(* C4 *)

\* C4: in the table of utils.read_gpx the "time" column of row i is the full
\* difference in seconds between the timestamp of point i and that of the
\* first point, whatever the duration of the track.
C4_TimeIsElapsedSeconds ==
    Returned("maprando.utils")
    => \A i \in 1..n :
          ret["maprando.utils"].points.values[i][4]
              = Float(Instant(track[i].time) - Instant(track[1].time))

(* C5 *)

Defective(c) ==
    \/ ~GoodHeader
    \/ n = 0
    \/ ~AllNumeric
    \/ (c = "maprando.utils" /\ ~AllTimed)

\* C5: a read_gpx call on a file with a non-numeric longitude, latitude or
\* elevation at any position (in utils.read_gpx also a malformed timestamp), or
\* without metadata time, track name or track points, ends with an exception
\* and returns nothing: no partial table, no bounding box of the points before.
C5_NoPartialResult ==
    \A c \in Readers :
        /\ (Finished(c) /\ Defective(c)) => (exc[c] # "none" /\ ret[c] = NoResult)
        /\ exc[c] # "none" => ret[c] = NoResult

C5_Witness ==
    /\ exc["gpx_utils"] = "ValueError"
    /\ exc["maprando.utils"] = "ValueError"
    /\ ret["maprando.utils"] = NoResult
    /\ GoodHeader
    /\ n >= 3
    /\ NumericPoint(track[1]) /\ NumericPoint(track[2])
    /\ ~NumericPoint(track[3])

(* C6 *)

\* C6: for every input utils.read_gpx accepts, the read_gpx of gpx_utils.py and
\* of maprando/gpx_utils.py accept it too, and the three return the same
\* activity_date, activity_name, xmin, xmax, ymin, ymax and the same sequence of
\* (lon, lat, ele) in the same order.
C6_VariantsAgree ==
    Returned("maprando.utils")
    => \A c \in {"gpx_utils", "maprando.gpx_utils"} :
          /\ Returned(c)
          /\ ret[c].activity_date = ret["maprando.utils"].activity_date
          /\ ret[c].activity_name = ret["maprando.utils"].activity_name
          /\ ret[c].xmin = ret["maprando.utils"].xmin
          /\ ret[c].xmax = ret["maprando.utils"].xmax
          /\ ret[c].ymin = ret["maprando.utils"].ymin
          /\ ret[c].ymax = ret["maprando.utils"].ymax
          /\ RowCount(c) = RowCount("maprando.utils")
          /\ \A i \in 1..RowCount(c) : Triple(c, i) = Triple("maprando.utils", i)

C6_Witness ==
    /\ Returned("maprando.utils")
    /\ Returned("gpx_utils")
    /\ n >= 2
    /\ ret["maprando.utils"].xmin < ret["maprando.utils"].xmax

(* C7 *)

C7_LoopInvariant ==
    pc = "loop"
    => /\ xmin = SetMin({XminInit} \cup Lons(k))
       /\ xmax = SetMax({XmaxInit} \cup Lons(k))
       /\ ymin = SetMin({YminInit} \cup Lats(k))
       /\ ymax = SetMax({YmaxInit} \cup Lats(k))
       /\ \A i \in 1..k :
             /\ xmin <= track[i].lon.val /\ track[i].lon.val <= xmax
             /\ ymin <= track[i].lat.val /\ track[i].lat.val <= ymax

C7_Monotone ==
    (pc = "loop" /\ pc' = "loop")
    => (xmin' <= xmin /\ xmax' >= xmax /\ ymin' <= ymin /\ ymax' >= ymax)

\* C7: after each of the first k points has been processed, xmin = min(180,
\* their longitudes), xmax = max(-180, their longitudes), ymin = min(90, their
\* latitudes), ymax = max(-90, their latitudes), a function of the set of
\* points and not of their order; every processed point lies within the bounds;
\* xmin and ymin never increase and xmax and ymax never decrease in the pass.
C7_BoundsTracking == []C7_LoopInvariant /\ [][C7_Monotone]_vars

C7_Witness ==
    /\ pc = "loop"
    /\ k >= 2
    /\ xmin < XminInit
    /\ xmax > XminInit
    /\ ymin < ymax

(* C8 *)

\* C8: after a successful read_gpx every longitude, latitude and elevation is
\* a float and none is still text; gpx_utils.py returns the parsed records
\* converted in place, each time still the original string; utils.read_gpx
\* converts each time to a datetime and uses it as the index of the table.
C8_TypeCoercion ==
    /\ \A c \in Readers :
          Returned(c) => /\ RowCount(c) = n
                         /\ \A i \in 1..n : Triple(c, i) = FileTriple(i)
    /\ Returned("gpx_utils")
       => \A i \in 1..n :
             /\ DOMAIN ret["gpx_utils"].points[i] = DOMAIN track[i]
             /\ ret["gpx_utils"].points[i].time = track[i].time
             /\ ret["gpx_utils"].points[i].time.type = "str"
    /\ Returned("maprando.utils")
       => \A i \in 1..n :
             /\ ret["maprando.utils"].points.index[i].type = "datetime"
             /\ ret["maprando.utils"].points.index[i] = Strptime(track[i].time)

C8_Witness ==
    /\ Returned("gpx_utils")
    /\ Returned("maprando.utils")
    /\ n >= 2

(* C9 *)

FigureOf(table) ==
    [figsize |-> <<8, 6>>, dpi |-> 100, shown |-> TRUE,
     artists |-> << [kind |-> "line", color |-> "blue",
                     x |-> ColumnOf(table, "lon"), y |-> ColumnOf(table, "lat")],
                    [kind |-> "image", tiles |-> "OSM", zoom |-> OsmZoom],
                    [kind |-> "gridlines", top_labels |-> FALSE, right_labels |-> FALSE] >>]

C10_State ==
    /\ written = {}
    /\ (call = "maprando.maprando" /\ pc \in {"plot", "add_image", "gridlines", "show"})
       => /\ Len(points.values) = n
          /\ points.columns = <<"lon", "lat", "ele", "x", "y">>
          /\ \A i \in 1..n : Len(points.values[i]) = 5
    /\ Finished("maprando.maprando")
       => /\ exc["maprando.maprando"] = exc["maprando.gpx_utils"]
          /\ ret["maprando.maprando"] = None
             => /\ Returned("maprando.gpx_utils")
                /\ figure = FigureOf(ret["maprando.gpx_utils"].points)

C10_StepOrder ==
    (call = "maprando.maprando" /\ pc' # pc)
    => <<pc, pc'>> \in { <<"main", "parse">>, <<"parse", "loop">>, <<"parse", "exit">>,
                         <<"loop", "exit">>, <<"loop", "project">>,
                         <<"project", "plot">>, <<"plot", "add_image">>,
                         <<"add_image", "gridlines">>, <<"gridlines", "show">>,
                         <<"show", "exit">> }

====
